---- MODULE Spec2Model ----
(***************************************************************************)
(* Skema: the `skema:generate` command (src/src/register_route.ts) and the  *)
(* configuration loader defineConfig (src/unnamed/part_000).                *)
(*                                                                         *)
(* JavaScript strings are modelled as sequences of one-character strings,  *)
(* so that startsWith, endsWith, split, replace, the regular expressions    *)
(* and the case conversions are computed character by character.           *)
(***************************************************************************)
EXTENDS Integers, Sequences, FiniteSets, TLC

\* ------------------------------------------------------------------------
\* Bounds of the model
\* ------------------------------------------------------------------------
MaxGroups == 2

MaxMethods == 3

MaxRoutes == 2

MaxPieces == 2

\* ------------------------------------------------------------------------
\* Characters and JavaScript string primitives
\* ------------------------------------------------------------------------
LowerAlphabet == <<"a","b","c","d","e","f","g","h","i","j","k","l","m",
                   "n","o","p","q","r","s","t","u","v","w","x","y","z">>

UpperAlphabet == <<"A","B","C","D","E","F","G","H","I","J","K","L","M",
                   "N","O","P","Q","R","S","T","U","V","W","X","Y","Z">>

DigitAlphabet == <<"0","1","2","3","4","5","6","7","8","9">>

Range(s) == {s[i] : i \in 1..Len(s)}

IsLowerChar(c) == c \in Range(LowerAlphabet)

IsUpperChar(c) == c \in Range(UpperAlphabet)

IsDigitChar(c) == c \in Range(DigitAlphabet)

IndexIn(alphabet, c) == CHOOSE i \in 1..Len(alphabet) : alphabet[i] = c

toLowerChar(c) == IF IsUpperChar(c) THEN LowerAlphabet[IndexIn(UpperAlphabet, c)] ELSE c

toUpperChar(c) == IF IsLowerChar(c) THEN UpperAlphabet[IndexIn(LowerAlphabet, c)] ELSE c

\* String.prototype.toLowerCase / toUpperCase
toLowerCase(s) == [i \in 1..Len(s) |-> toLowerChar(s[i])]

toUpperCase(s) == [i \in 1..Len(s) |-> toUpperChar(s[i])]

\* String.prototype.startsWith / endsWith
startsWith(s, p) == Len(p) <= Len(s) /\ SubSeq(s, 1, Len(p)) = p

endsWith(s, p) == Len(p) <= Len(s) /\ SubSeq(s, Len(s) - Len(p) + 1, Len(s)) = p

\* Array.prototype.join
RECURSIVE join(_, _)
join(parts, sep) ==
  IF parts = << >> THEN << >>
  ELSE IF Len(parts) = 1 THEN parts[1]
  ELSE parts[1] \o sep \o join(Tail(parts), sep)

\* String.prototype.split on a class of separator characters.  With
\* collapse = FALSE every separator character ends a piece (split('/'),
\* split('_')); with collapse = TRUE a run of separators ends one piece
\* (split(/[./-]+/)).  Leading and trailing separators give empty pieces.
RECURSIVE splitFrom(_, _, _, _, _)
splitFrom(s, seps, collapse, i, cur) ==
  IF i > Len(s) THEN <<cur>>
  ELSE IF s[i] \in seps
       THEN IF collapse /\ i > 1 /\ s[i - 1] \in seps
            THEN splitFrom(s, seps, collapse, i + 1, cur)
            ELSE <<cur>> \o splitFrom(s, seps, collapse, i + 1, << >>)
       ELSE splitFrom(s, seps, collapse, i + 1, Append(cur, s[i]))

split(s, seps) == splitFrom(s, seps, FALSE, 1, << >>)

splitRuns(s, seps) == splitFrom(s, seps, TRUE, 1, << >>)

\* String.prototype.replace(pattern, replacement) with a string pattern:
\* the first occurrence only.
FirstIndexOf(s, p) ==
  LET hits == {i \in 1..(Len(s) - Len(p) + 1) : SubSeq(s, i, i + Len(p) - 1) = p}
  IN IF hits = {} THEN 0 ELSE CHOOSE i \in hits : \A j \in hits : i <= j

replace(s, p, r) ==
  LET i == FirstIndexOf(s, p)
  IN IF i = 0 THEN s
     ELSE SubSeq(s, 1, i - 1) \o r \o SubSeq(s, i + Len(p), Len(s))

\* Array.prototype.slice(1) and Array.prototype.pop (the popped element)
slice1(a) == IF a = << >> THEN << >> ELSE Tail(a)

last(a) == IF a = << >> THEN << >> ELSE a[Len(a)]

\* variant: last occurrences, in order
RECURSIVE uniqKeepLast(_)
uniqKeepLast(a) ==
  IF a = << >> THEN << >>
  ELSE LET rest == uniqKeepLast(Tail(a))
       IN IF a[1] \in Range(rest) THEN rest ELSE <<a[1]>> \o rest

\* [...new Set(a)]: first occurrences, in order
RECURSIVE uniq(_)
uniq(a) ==
  IF a = << >> THEN << >>
  ELSE LET rest == uniq(SubSeq(a, 1, Len(a) - 1))
       IN IF a[Len(a)] \in Range(rest) THEN rest ELSE Append(rest, a[Len(a)])

\* ------------------------------------------------------------------------
\* State
\* ------------------------------------------------------------------------
VARIABLES
  groups,          \* config.groups as declared: <<key, value>> in source order
  configResult,    \* what defineConfig did with the declaration
  routeTable,      \* router.toJSON().root
  routes,          \* the Map returned by #groupRoutes, in insertion order
  pc,              \* position inside run()
  formatting,      \* --formatting flag
  typechecking,    \* --typechecking flag
  linting,         \* --linting flag
  exitCode,        \* exit code each external tool gives in this environment
  invoked,         \* the steps whose subprocess this run has awaited, in order
  groupIdx,        \* index of the entry of `routes` being parsed
  routeIdx,        \* index of the route of that group being parsed
  parsedRoutes,    \* accepted routes of the group being parsed
  allParsedRoutes, \* accepted routes of the run
  skipped,         \* the skip report: <<pattern, reason>> in order
  error,           \* the exception that ended the run, or NoError
  schemaFiles,     \* client/<group>/schema.ts: content or Absent
  referenceFile,   \* client/reference.ts: content or Absent
  runNo,           \* how many times the command has been started
  atStart,         \* the generated files as they were when the command started
  methods,         \* argument of #getMethod
  method,          \* result of #getMethod
  probe,           \* the route pattern and handler file the name is derived from
  name             \* the derived {key, type}

configVars == <<groups, configResult, routeTable, routes>>

flagVars == <<formatting, typechecking, linting, exitCode>>

runVars == <<pc, invoked, groupIdx, routeIdx, parsedRoutes, allParsedRoutes, skipped, error>>

fileVars == <<schemaFiles, referenceFile, runNo, atStart>>

methodVars == <<methods, method>>

nameVars == <<probe, name>>

vars == <<configVars, flagVars, runVars, fileVars, methodVars, nameVars>>

\* ------------------------------------------------------------------------
\* defineConfig (src/unnamed/part_000)
\* ------------------------------------------------------------------------
\* /^\/[a-z0-9-\/]+\/$/
GroupValueRegex(value) ==
  /\ Len(value) >= 3
  /\ value[1] = "/"
  /\ value[Len(value)] = "/"
  /\ \A i \in 2..(Len(value) - 1) :
       IsLowerChar(value[i]) \/ IsDigitChar(value[i]) \/ value[i] \in {"-", "/"}

\* /^[a-z0-9_]+$/
GroupKeyRegex(key) ==
  /\ Len(key) >= 1
  /\ \A i \in 1..Len(key) : IsLowerChar(key[i]) \/ IsDigitChar(key[i]) \/ key[i] = "_"

\* Object.entries / Object.keys of an object literal: the own string keys,
\* array-index keys first in ascending numeric order, then the other keys in
\* insertion order.
IsArrayIndex(key) ==
  /\ Len(key) >= 1
  /\ Len(key) <= 9
  /\ \A i \in 1..Len(key) : IsDigitChar(key[i])
  /\ (Len(key) > 1 => key[1] # "0")

RECURSIVE NumericValue(_)
NumericValue(key) ==
  IF key = << >> THEN 0
  ELSE 10 * NumericValue(SubSeq(key, 1, Len(key) - 1))
         + (IndexIn(DigitAlphabet, key[Len(key)]) - 1)

RECURSIVE SortByIndex(_)
SortByIndex(entries) ==
  IF entries = << >> THEN << >>
  ELSE LET m == CHOOSE i \in 1..Len(entries) :
                  \A j \in 1..Len(entries) :
                    NumericValue(entries[i][1]) <= NumericValue(entries[j][1])
       IN <<entries[m]>> \o
          SortByIndex(SubSeq(entries, 1, m - 1) \o SubSeq(entries, m + 1, Len(entries)))

ObjectEntries(obj) ==
  SortByIndex(SelectSeq(obj, LAMBDA e : IsArrayIndex(e[1])))
    \o SelectSeq(obj, LAMBDA e : ~IsArrayIndex(e[1]))

\* The loop of defineConfig: the first entry, in Object.entries order, that
\* fails a test decides the exception; the value is tested before the key.
RECURSIVE validateEntries(_)
validateEntries(entries) ==
  IF entries = << >> THEN [kind |-> "returned"]
  ELSE LET key == entries[1][1]
           value == entries[1][2]
       IN IF ~GroupValueRegex(value)
          THEN [kind |-> "thrown", what |-> "value", key |-> key, value |-> value]
          ELSE IF ~GroupKeyRegex(key)
          THEN [kind |-> "thrown", what |-> "name", key |-> key]
          ELSE validateEntries(Tail(entries))

defineConfig(config) ==
  IF Len(config) > 0 THEN validateEntries(ObjectEntries(config)) ELSE [kind |-> "returned"]

\* ------------------------------------------------------------------------
\* #groupRoutes
\* ------------------------------------------------------------------------
RECURSIVE firstMatch(_, _)
firstMatch(entries, pattern) ==
  IF entries = << >> THEN << >>
  ELSE IF startsWith(pattern, entries[1][2]) THEN entries[1][1]
  ELSE firstMatch(Tail(entries), pattern)

Internal == <<"i","n","t","e","r","n","a","l">>

\* the group one route is put in (the inner loop and the `!group` default)
groupOf(config, pattern) ==
  LET group == firstMatch(ObjectEntries(config), pattern)
  IN IF group = << >> THEN Internal ELSE group

\* result.get(group).push(route), creating the entry at its first route
mapPush(map, group, route) ==
  IF \E i \in 1..Len(map) : map[i].group = group
  THEN [i \in 1..Len(map) |->
          IF map[i].group = group
          THEN [map[i] EXCEPT !.routes = Append(@, route)]
          ELSE map[i]]
  ELSE Append(map, [group |-> group, routes |-> <<route>>])

RECURSIVE groupRoutes(_, _, _)
groupRoutes(config, table, result) ==
  IF table = << >> THEN result
  ELSE groupRoutes(config, Tail(table),
                   mapPush(result, groupOf(config, table[1].pattern), table[1]))

\* ------------------------------------------------------------------------
\* #getMethod
\* ------------------------------------------------------------------------
HeadMethod == <<"h","e","a","d">>

DefaultMethod == <<"G","E","T">>

RECURSIVE getMethodFrom(_, _)
getMethodFrom(ms, result) ==
  IF ms = << >> THEN result
  ELSE LET lowerMethod == toLowerCase(ms[1])
       IN IF lowerMethod = HeadMethod
          THEN getMethodFrom(Tail(ms), result)
          ELSE getMethodFrom(Tail(ms), toUpperCase(lowerMethod))

\* variant: HEAD recognised only when written in lower case
RECURSIVE getMethodExactHead(_, _)
getMethodExactHead(ms, result) ==
  IF ms = << >> THEN result
  ELSE IF ms[1] = HeadMethod
       THEN getMethodExactHead(Tail(ms), result)
       ELSE getMethodExactHead(Tail(ms), toUpperCase(toLowerCase(ms[1])))

getMethodCaseSensitive(ms) == getMethodExactHead(ms, DefaultMethod)

getMethod(ms) == getMethodFrom(ms, DefaultMethod)

\* ------------------------------------------------------------------------
\* stringHelpers.snakeCase / pascalCase (@adonisjs/core/helpers/string), as
\* used on route tokens: a word is a maximal run of letters and digits, a
\* capital after a non-capital starts a new word, every other character
\* separates words.
\* ------------------------------------------------------------------------
IsWordChar(c) == IsLowerChar(c) \/ IsUpperChar(c) \/ IsDigitChar(c)

RECURSIVE wordsFrom(_, _, _)
wordsFrom(s, i, cur) ==
  LET flush == IF cur = << >> THEN << >> ELSE <<cur>>
  IN IF i > Len(s) THEN flush
     ELSE IF ~IsWordChar(s[i]) THEN flush \o wordsFrom(s, i + 1, << >>)
     ELSE IF IsUpperChar(s[i]) /\ cur # << >> /\ ~IsUpperChar(cur[Len(cur)])
          THEN flush \o wordsFrom(s, i + 1, <<s[i]>>)
     ELSE wordsFrom(s, i + 1, Append(cur, s[i]))

words(s) == wordsFrom(s, 1, << >>)

snakeCase(s) ==
  LET w == words(s)
  IN join([i \in 1..Len(w) |-> toLowerCase(w[i])], <<"_">>)

capitalize(w) == <<toUpperChar(w[1])>> \o Tail(w)

pascalCase(s) ==
  LET w == words(s)
  IN join([i \in 1..Len(w) |-> capitalize(w[i])], << >>)

\* ------------------------------------------------------------------------
\* #getConstructorAction
\* ------------------------------------------------------------------------
ControllerSuffix == <<"_","c","o","n","t","r","o","l","l","e","r",".","t","s">>

\* FALSE when the function throws
constructorActionOk(path) ==
  LET fileName == last(split(path, {"/"}))
  IN fileName # << >> /\ endsWith(fileName, ControllerSuffix)

getConstructorAction(path) ==
  split(replace(last(split(path, {"/"})), ControllerSuffix, << >>), {"_"})

\* ------------------------------------------------------------------------
\* run(): name derivation (lines 427-442)
\* ------------------------------------------------------------------------
spacedPathOf(pattern, relativePath) ==
  SelectSeq(splitRuns(pattern, {".", "/", "-"}), LAMBDA seg : ~startsWith(seg, <<":">>))
    \o getConstructorAction(relativePath)

joinedSpacedPath(pattern, relativePath) ==
  LET spacedPath == spacedPathOf(pattern, relativePath)
  IN join(uniq([i \in 1..Len(spacedPath) |-> snakeCase(spacedPath[i])]), <<" ">>)

RouteSuffix == <<"R","o","u","t","e">>

deriveName(pattern, relativePath) ==
  LET joined == joinedSpacedPath(pattern, relativePath)
  IN [key  |-> toUpperCase(snakeCase(joined)),
      type |-> pascalCase(joined) \o RouteSuffix]

\* ------------------------------------------------------------------------
\* run(): path segment validation (lines 444-468)
\* ------------------------------------------------------------------------
IsLetter(c) == IsLowerChar(c) \/ IsUpperChar(c)

\* /^:[a-zA-Z]+$/i
ParamSegmentRegex(segment) ==
  /\ Len(segment) >= 2
  /\ segment[1] = ":"
  /\ \A i \in 2..Len(segment) : IsLetter(segment[i])

\* /^[a-z0-9-]+$/i : the i flag makes the class match capitals too
LiteralSegmentRegex(segment) ==
  /\ Len(segment) >= 1
  /\ \A i \in 1..Len(segment) :
       IsLowerChar(segment[i]) \/ IsUpperChar(segment[i])
         \/ IsDigitChar(segment[i]) \/ segment[i] = "-"

splittedPathOf(pattern) == slice1(split(pattern, {"/"}))

segmentOk(segment) ==
  IF startsWith(segment, <<":">>) THEN ParamSegmentRegex(segment)
  ELSE LiteralSegmentRegex(segment)

\* FALSE when the loop throws
pathShapeOk(pattern) ==
  LET splittedPath == splittedPathOf(pattern)
  IN \A i \in 1..Len(splittedPath) : segmentOk(splittedPath[i])

rewriteSegment(segment) ==
  IF startsWith(segment, <<":">>)
  THEN <<"{", "{", " ">> \o replace(segment, <<":">>, << >>) \o <<" ", "}", "}">>
  ELSE segment

pathTemplate(pattern) ==
  LET splittedPath == splittedPathOf(pattern)
  IN <<"/">> \o join([i \in 1..Len(splittedPath) |-> rewriteSegment(splittedPath[i])], <<"/">>)

\* ------------------------------------------------------------------------
\* Paths (#getRootPath, #getClientPath, #getRelativePath)
\* ------------------------------------------------------------------------
AppRoot == <<"/","w">>

getClientPath(path) == AppRoot \o <<"/","c","l","i","e","n","t","/">> \o path

RECURSIVE commonPrefixLen(_, _)
commonPrefixLen(a, b) ==
  IF a = << >> \/ b = << >> THEN 0
  ELSE IF a[1] = b[1] THEN 1 + commonPrefixLen(Tail(a), Tail(b))
  ELSE 0

\* slash(path.relative(from, to)) for absolute, normalised paths
getRelativePath(from, to) ==
  LET f == split(from, {"/"})
      t == split(to, {"/"})
      n == commonPrefixLen(f, t)
      ups == [i \in 1..(Len(f) - n) |-> <<".", ".">>]
  IN join(ups \o SubSeq(t, n + 1, Len(t)), <<"/">>)

\* ------------------------------------------------------------------------
\* run(): one iteration of the route loop (lines 403-562)
\* ------------------------------------------------------------------------
\* sourcesFiles.find(...): index of the first source file whose path ends
\* with the module path (its '#' removed) and '.ts'; 0 when there is none
findSourceFile(sourcesFiles, moduleNameOrPath) ==
  LET suffix == replace(moduleNameOrPath, <<"#">>, << >>) \o <<".","t","s">>
      hits == {i \in 1..Len(sourcesFiles) : endsWith(sourcesFiles[i].path, suffix)}
  IN IF hits = {} THEN 0 ELSE CHOOSE i \in hits : \A j \in hits : i <= j

\* Boolean(x) of a string or undefined (undefined is the empty sequence)
Boolean(x) == x # << >>

\* variant: the scan compares controller paths only
RECURSIVE collisionControllerOnly(_, _)
collisionControllerOnly(accepted, draft) ==
  IF accepted = << >> THEN "none"
  ELSE IF accepted[1].controller.path = draft.controller.path THEN "controller-registered"
  ELSE collisionControllerOnly(Tail(accepted), draft)

\* the collision scan of lines 490-511: the first accepted route, in order,
\* that shares the controller path or the key decides the exception
RECURSIVE collision(_, _)
collision(accepted, draft) ==
  IF accepted = << >> THEN "none"
  ELSE IF accepted[1].controller.path = draft.controller.path THEN "controller-registered"
  ELSE IF accepted[1].name.key = draft.name.key THEN "key-registered"
  ELSE collision(Tail(accepted), draft)

\* variant: the `handle` member is not looked for
validateControllerWithoutHandle(sf) ==
  IF ~sf.defaultExport THEN "no-default-export"
  ELSE IF ~sf.isClass THEN "not-a-class"
  ELSE IF sf.input # "absent" /\ sf.input # "object" THEN "input-not-object"
  ELSE IF sf.form # "absent" /\ sf.form # "boolean" THEN "form-not-boolean"
  ELSE "ok"

\* the Controller Validator of lines 513-552: the reason of the skip, or "ok"
validateController(sf) ==
  IF ~sf.defaultExport THEN "no-default-export"
  ELSE IF ~sf.isClass THEN "not-a-class"
  ELSE IF ~sf.handle THEN "no-handle"
  ELSE IF sf.input # "absent" /\ sf.input # "object" THEN "input-not-object"
  ELSE IF sf.form # "absent" /\ sf.form # "boolean" THEN "form-not-boolean"
  ELSE "ok"

formOf(sf) == IF sf.form # "absent" THEN Boolean(sf.initializer) ELSE FALSE

NoRoute ==
  [path |-> << >>, method |-> << >>, form |-> FALSE,
   controller |-> [relative |-> << >>, path |-> << >>],
   name |-> [key |-> << >>, type |-> << >>]]

parsedRouteDraft(route, relativePath) ==
  [path |-> pathTemplate(route.pattern),
   method |-> getMethod(route.methods),
   form |-> FALSE,
   controller |-> [relative |-> relativePath, path |-> route.handler.moduleNameOrPath],
   name |-> deriveName(route.pattern, relativePath)]

\* The part of the loop body that reads the route and its source file only
\* (lines 406-482 and 513-552): how far the route gets before the collision
\* scan, its draft, and what the Controller Validator will say of its class.
inspectRoute(sourcesFiles, group, route) ==
  IF route.handler.isFunction
  THEN [stage |-> "function-route", draft |-> NoRoute, check |-> "ok", form |-> FALSE]
  ELSE LET sfIdx == findSourceFile(sourcesFiles, route.handler.moduleNameOrPath)
       IN IF sfIdx = 0
          THEN [stage |-> "no-source-file", draft |-> NoRoute, check |-> "ok", form |-> FALSE]
          ELSE LET sf == sourcesFiles[sfIdx]
                   relativePath == getRelativePath(getClientPath(group), sf.path)
               IN IF ~constructorActionOk(relativePath)
                  THEN [stage |-> "file-name", draft |-> NoRoute, check |-> "ok",
                        form |-> FALSE]
                  ELSE IF ~pathShapeOk(route.pattern)
                  THEN [stage |-> "path-segment", draft |-> NoRoute, check |-> "ok",
                        form |-> FALSE]
                  ELSE [stage |-> "parsed",
                        draft |-> parsedRouteDraft(route, relativePath),
                        check |-> validateController(sf),
                        form |-> formOf(sf)]

\* What the loop body does with one route, given the routes accepted so far:
\* kind is "skipped" (continue), "thrown" (the run ends) or "accepted".
parseRoute(inspected, accepted) ==
  IF inspected.stage \in {"function-route", "no-source-file"}
  THEN [kind |-> "skipped", reason |-> inspected.stage, route |-> NoRoute]
  ELSE IF inspected.stage \in {"file-name", "path-segment"}
  THEN [kind |-> "thrown", reason |-> inspected.stage, route |-> NoRoute]
  ELSE LET hit == collision(accepted, inspected.draft)
       IN IF hit # "none"
          THEN [kind |-> "thrown", reason |-> hit, route |-> inspected.draft]
          ELSE IF inspected.check # "ok"
          THEN [kind |-> "skipped", reason |-> inspected.check, route |-> inspected.draft]
          ELSE [kind |-> "accepted", reason |-> "ok",
                route |-> [inspected.draft EXCEPT !.form = inspected.form]]

\* ------------------------------------------------------------------------
\* The environment the command runs in
\* ------------------------------------------------------------------------
\* this.#project.getSourceFiles(): the handler modules of the application,
\* each with what ts-morph reports about its default-exported class
SourceFiles == <<
  [path |-> <<"/","w","/","a","p","p","/","c","o","n","t","r","o","l","l","e","r","s","/","u","s","e","r","s","/","l","i","s","t","_","c","o","n","t","r","o","l","l","e","r",".","t","s">>,
   defaultExport |-> TRUE, isClass |-> TRUE, handle |-> TRUE,
   input |-> "object", form |-> "boolean", initializer |-> <<"f","a","l","s","e">>],
  [path |-> <<"/","w","/","a","p","p","/","c","o","n","t","r","o","l","l","e","r","s","/","u","s","e","r","s","_","c","o","n","t","r","o","l","l","e","r",".","t","s">>,
   defaultExport |-> TRUE, isClass |-> TRUE, handle |-> TRUE,
   input |-> "absent", form |-> "boolean", initializer |-> <<"t","r","u","e">>],
  [path |-> <<"/","w","/","a","p","p","/","c","o","n","t","r","o","l","l","e","r","s","/","p","o","s","t","s","/","s","h","o","w","_","c","o","n","t","r","o","l","l","e","r",".","t","s">>,
   defaultExport |-> TRUE, isClass |-> TRUE, handle |-> TRUE,
   input |-> "absent", form |-> "absent", initializer |-> << >>],
  [path |-> <<"/","w","/","a","p","p","/","c","o","n","t","r","o","l","l","e","r","s","/","l","i","s","t","_","c","o","n","t","r","o","l","l","e","r",".","t","s">>,
   defaultExport |-> TRUE, isClass |-> TRUE, handle |-> FALSE,
   input |-> "absent", form |-> "absent", initializer |-> << >>],
  [path |-> <<"/","w","/","a","p","p","/","c","o","n","t","r","o","l","l","e","r","s","/","h","e","a","l","t","h",".","t","s">>,
   defaultExport |-> TRUE, isClass |-> TRUE, handle |-> TRUE,
   input |-> "absent", form |-> "absent", initializer |-> << >>],
  [path |-> <<"/","w","/","a","p","p","/","c","o","n","t","r","o","l","l","e","r","s","/","a","p","i","/","f","o","r","m","s","_","c","o","n","t","r","o","l","l","e","r",".","t","s">>,
   defaultExport |-> TRUE, isClass |-> TRUE, handle |-> TRUE,
   input |-> "object", form |-> "other", initializer |-> <<"1">>]
>>

\* routes the router may hold
RouteCatalog == {
  [pattern |-> <<"/","u","s","e","r","s","/","l","i","s","t">>,
   methods |-> <<<<"G","E","T">>, <<"H","E","A","D">>>>,
   handler |-> [isFunction |-> FALSE, moduleNameOrPath |-> <<"#","c","o","n","t","r","o","l","l","e","r","s","/","u","s","e","r","s","/","l","i","s","t","_","c","o","n","t","r","o","l","l","e","r">>]],
  [pattern |-> <<"/","u","s","e","r","s">>,
   methods |-> <<<<"G","E","T">>, <<"H","E","A","D">>>>,
   handler |-> [isFunction |-> FALSE, moduleNameOrPath |-> <<"#","c","o","n","t","r","o","l","l","e","r","s","/","l","i","s","t","_","c","o","n","t","r","o","l","l","e","r">>]],
  [pattern |-> <<"/","u","s","e","r","s","/",":","i","d">>,
   methods |-> <<<<"P","O","S","T">>>>,
   handler |-> [isFunction |-> FALSE, moduleNameOrPath |-> <<"#","c","o","n","t","r","o","l","l","e","r","s","/","u","s","e","r","s","_","c","o","n","t","r","o","l","l","e","r">>]],
  [pattern |-> <<"/","P","o","s","t","s","/",":","p","o","s","t","I","d">>,
   methods |-> <<<<"G","E","T">>, <<"H","E","A","D">>, <<"P","O","S","T">>>>,
   handler |-> [isFunction |-> FALSE, moduleNameOrPath |-> <<"#","c","o","n","t","r","o","l","l","e","r","s","/","p","o","s","t","s","/","s","h","o","w","_","c","o","n","t","r","o","l","l","e","r">>]],
  [pattern |-> <<"/","p","o","s","t","s","/",":","i","d","2">>,
   methods |-> <<<<"G","E","T">>, <<"H","E","A","D">>>>,
   handler |-> [isFunction |-> FALSE, moduleNameOrPath |-> <<"#","c","o","n","t","r","o","l","l","e","r","s","/","p","o","s","t","s","/","s","h","o","w","_","c","o","n","t","r","o","l","l","e","r">>]],
  [pattern |-> <<"/","h","e","a","l","t","h">>,
   methods |-> <<<<"G","E","T">>, <<"H","E","A","D">>>>,
   handler |-> [isFunction |-> TRUE, moduleNameOrPath |-> << >>]],
  [pattern |-> <<"/","p","i","n","g">>,
   methods |-> <<<<"G","E","T">>, <<"H","E","A","D">>>>,
   handler |-> [isFunction |-> FALSE, moduleNameOrPath |-> <<"#","c","o","n","t","r","o","l","l","e","r","s","/","m","i","s","s","i","n","g","_","c","o","n","t","r","o","l","l","e","r">>]],
  [pattern |-> <<"/","h","e","a","l","t","h">>,
   methods |-> <<<<"G","E","T">>, <<"H","E","A","D">>>>,
   handler |-> [isFunction |-> FALSE, moduleNameOrPath |-> <<"#","c","o","n","t","r","o","l","l","e","r","s","/","h","e","a","l","t","h">>]],
  [pattern |-> <<"/","a","p","i","/","u","s","e","r","s","/",":","i","d">>,
   methods |-> <<<<"P","U","T">>>>,
   handler |-> [isFunction |-> FALSE, moduleNameOrPath |-> <<"#","c","o","n","t","r","o","l","l","e","r","s","/","u","s","e","r","s","_","c","o","n","t","r","o","l","l","e","r">>]],
  [pattern |-> <<"/","a","p","i","/","f","o","r","m","s">>,
   methods |-> <<<<"P","O","S","T">>>>,
   handler |-> [isFunction |-> FALSE, moduleNameOrPath |-> <<"#","c","o","n","t","r","o","l","l","e","r","s","/","a","p","i","/","f","o","r","m","s","_","c","o","n","t","r","o","l","l","e","r">>]]
}

Api == <<"a","p","i">>

\* configurations accepted by defineConfig
RunConfigs == {<< >>, <<<<Api, <<"/","a","p","i","/">>>>>>}

GroupNames == {Internal, Api}

Steps == {"format", "typecheck", "lint", "formatClient"}

\* the flags of the command line and the exit code of each tooling step
Environments == {
  [formatting |-> TRUE, typechecking |-> TRUE, linting |-> TRUE,
   exitCode |-> [s \in Steps |-> 0]],
  [formatting |-> FALSE, typechecking |-> TRUE, linting |-> FALSE,
   exitCode |-> [s \in Steps |-> 0]],
  [formatting |-> TRUE, typechecking |-> TRUE, linting |-> TRUE,
   exitCode |-> [s \in Steps |-> IF s = "lint" THEN 1 ELSE 0]]
}

\* inspectRoute of every route the router may hold, in every group
Inspected ==
  [g \in GroupNames, r \in RouteCatalog |-> inspectRoute(SourceFiles, g, r)]

SeqsUpTo(S, n) == UNION {[1..k -> S] : k \in 0..n}

NoFile == [exists |-> FALSE, routes |-> << >>]

\* a schema file left by an earlier version of the route table
StaleRoute ==
  [NoRoute EXCEPT !.path = <<"/">>, !.method = DefaultMethod,
                  !.name = [key |-> <<"O","L","D">>, type |-> <<"O","l","d">> \o RouteSuffix]]

StaleFile == [exists |-> TRUE, routes |-> <<StaleRoute>>]

NoReference == [exists |-> FALSE, text |-> "none"]

\* ------------------------------------------------------------------------
\* Initial states
\* ------------------------------------------------------------------------
ConfigIdle ==
  /\ groups = << >>
  /\ configResult = defineConfig(<< >>)
  /\ routeTable = << >>
  /\ routes = << >>

FlagsDefault ==
  /\ formatting = TRUE
  /\ typechecking = TRUE
  /\ linting = TRUE
  /\ exitCode = [s \in Steps |-> 0]

RunAt(at) ==
  /\ pc = at
  /\ invoked = << >>
  /\ groupIdx = 1
  /\ routeIdx = 1
  /\ parsedRoutes = << >>
  /\ allParsedRoutes = << >>
  /\ skipped = << >>
  /\ error = "none"

FilesIdle ==
  /\ schemaFiles = [g \in GroupNames |-> NoFile]
  /\ referenceFile = NoReference
  /\ runNo = 1
  /\ atStart = [schemaFiles |-> schemaFiles, referenceFile |-> referenceFile]

MethodIdle ==
  /\ methods = << >>
  /\ method = << >>

NameIdle ==
  /\ probe = [pieces |-> << >>, sep |-> "/", fileWords |-> << >>, suffix |-> << >>]
  /\ name = [key |-> << >>, type |-> << >>]

\* the command is started in an application whose configuration was loaded
Init ==
  /\ groups \in RunConfigs
  /\ configResult = defineConfig(groups)
  /\ routeTable \in SeqsUpTo(RouteCatalog, MaxRoutes)
  /\ routes = << >>
  /\ \E env \in Environments :
       /\ formatting = env.formatting
       /\ typechecking = env.typechecking
       /\ linting = env.linting
       /\ exitCode = env.exitCode
  /\ RunAt("start")
  /\ \E old \in {NoFile, StaleFile} : schemaFiles = [g \in GroupNames |-> old]
  /\ referenceFile \in {NoReference, [exists |-> TRUE, text |-> "user"]}
  /\ runNo = 1
  /\ atStart = [schemaFiles |-> schemaFiles, referenceFile |-> referenceFile]
  /\ MethodIdle
  /\ NameIdle

\* ------------------------------------------------------------------------
\* run(): the steps of the command
\* ------------------------------------------------------------------------
\* #prepareDestination: removes entries that do not end in '.ts' by their
\* bare name, or creates client/; the generated files are not touched
PrepareDestination ==
  /\ pc = "start"
  /\ pc' = "getRoutes"
  /\ UNCHANGED <<configVars, flagVars, invoked, groupIdx, routeIdx, parsedRoutes, allParsedRoutes,
                 skipped, error, fileVars, methodVars, nameVars>>

\* const routes = await this.#groupRoutes(await this.#getRoutes())
GetRoutes ==
  /\ pc = "getRoutes"
  /\ configResult.kind = "returned"
  /\ routes' = groupRoutes(groups, routeTable, << >>)
  /\ pc' = "format"
  /\ UNCHANGED <<groups, configResult, routeTable, flagVars, invoked, groupIdx, routeIdx,
                 parsedRoutes, allParsedRoutes, skipped, error, fileVars, methodVars,
                 nameVars>>

stepActive(step) ==
  CASE step = "format" -> formatting
    [] step = "typecheck" -> typechecking
    [] step = "lint" -> linting
    [] step = "formatClient" -> formatting

stepAfter(step) ==
  CASE step = "format" -> "typecheck"
    [] step = "typecheck" -> "lint"
    [] step = "lint" -> "reference"
    [] step = "formatClient" -> "done"

\* variant: the exit code of the subprocess is not looked at
CommandIgnoringExitCode(step) ==
  /\ pc = step
  /\ \/ /\ ~stepActive(step)
        /\ invoked' = invoked
     \/ /\ stepActive(step)
        /\ invoked' = Append(invoked, step)
  /\ pc' = stepAfter(step)
  /\ UNCHANGED <<configVars, flagVars, groupIdx, routeIdx, parsedRoutes, allParsedRoutes,
                 skipped, error, fileVars, methodVars, nameVars>>

\* #command: an inactive step returns at once; an active one awaits the
\* subprocess and ends the process when its exit code is not 0
Command(step) ==
  /\ pc = step
  /\ \/ /\ ~stepActive(step)
        /\ invoked' = invoked
        /\ pc' = stepAfter(step)
     \/ /\ stepActive(step)
        /\ exitCode[step] # 0
        /\ invoked' = Append(invoked, step)
        /\ pc' = "exited"
     \/ /\ stepActive(step)
        /\ exitCode[step] = 0
        /\ invoked' = Append(invoked, step)
        /\ pc' = stepAfter(step)
  /\ UNCHANGED <<configVars, flagVars, groupIdx, routeIdx, parsedRoutes, allParsedRoutes,
                 skipped, error, fileVars, methodVars, nameVars>>

GeneratedReference == [exists |-> TRUE, text |-> "generated"]

\* #writeReferenceFile: an existing file is left alone
writeReferenceFile(file) == IF file.exists THEN file ELSE GeneratedReference

WriteReferenceFile ==
  /\ pc = "reference"
  /\ referenceFile' = writeReferenceFile(referenceFile)
  /\ pc' = "parse"
  /\ UNCHANGED <<configVars, flagVars, invoked, groupIdx, routeIdx, parsedRoutes, allParsedRoutes,
                 skipped, error, schemaFiles, runNo, atStart, methodVars, nameVars>>

InGroup == pc = "parse" /\ groupIdx <= Len(routes)

AtRoute == InGroup /\ routeIdx <= Len(routes[groupIdx].routes)

currentGroup == routes[groupIdx].group

currentRoute == routes[groupIdx].routes[routeIdx]

currentOutcome == parseRoute(Inspected[currentGroup, currentRoute], allParsedRoutes)

\* `continue` before the route is parsed: a function handler, or no source file
SkipRoute ==
  /\ AtRoute
  /\ currentOutcome.kind = "skipped"
  /\ currentOutcome.reason \in {"function-route", "no-source-file"}
  /\ skipped' = Append(skipped, <<currentRoute.pattern, currentOutcome.reason>>)
  /\ routeIdx' = routeIdx + 1
  /\ UNCHANGED <<configVars, flagVars, invoked, pc, groupIdx, parsedRoutes, allParsedRoutes, error,
                 fileVars, methodVars, nameVars>>

\* variant: the routes accepted so far in the group are written out before
\* the exception leaves the loop
ThrowErrorFlushing ==
  /\ AtRoute
  /\ currentOutcome.kind = "thrown"
  /\ error' = currentOutcome.reason
  /\ pc' = "failed"
  /\ schemaFiles' = [schemaFiles EXCEPT
                       ![currentGroup] = [exists |-> TRUE, routes |-> parsedRoutes]]
  /\ UNCHANGED <<configVars, flagVars, invoked, groupIdx, routeIdx, parsedRoutes, allParsedRoutes,
                 skipped, referenceFile, runNo, atStart, methodVars, nameVars>>

\* `throw new Error(...)`: file name, path segment or collision; nothing
\* catches it inside run()
ThrowError ==
  /\ AtRoute
  /\ currentOutcome.kind = "thrown"
  /\ error' = currentOutcome.reason
  /\ pc' = "failed"
  /\ UNCHANGED <<configVars, flagVars, invoked, groupIdx, routeIdx, parsedRoutes, allParsedRoutes,
                 skipped, fileVars, methodVars, nameVars>>

\* validatingRoute.skipped(...); continue
SkipValidation ==
  /\ AtRoute
  /\ currentOutcome.kind = "skipped"
  /\ currentOutcome.reason \notin {"function-route", "no-source-file"}
  /\ skipped' = Append(skipped, <<currentRoute.pattern, currentOutcome.reason>>)
  /\ routeIdx' = routeIdx + 1
  /\ UNCHANGED <<configVars, flagVars, invoked, pc, groupIdx, parsedRoutes, allParsedRoutes, error,
                 fileVars, methodVars, nameVars>>

\* parsedRoutes.push(parsedRouteDraft); allParsedRoutes.push(parsedRouteDraft)
AddRoute ==
  /\ AtRoute
  /\ currentOutcome.kind = "accepted"
  /\ parsedRoutes' = Append(parsedRoutes, currentOutcome.route)
  /\ allParsedRoutes' = Append(allParsedRoutes, currentOutcome.route)
  /\ routeIdx' = routeIdx + 1
  /\ UNCHANGED <<configVars, flagVars, invoked, pc, groupIdx, skipped, error, fileVars, methodVars,
                 nameVars>>

\* variant: the new text is inserted after the text the file already has
writeSchemaFileAppending(old, newRoutes) ==
  [exists |-> TRUE, routes |-> old.routes \o newRoutes]

\* #writeSchemaFile: createSourceFile(..., '', {overwrite: true}), the text
\* written from `routes` alone, then save()
writeSchemaFile(old, newRoutes) == [exists |-> TRUE, routes |-> newRoutes]

\* end of one group's routes: its schema file is written and the next group
\* starts with an empty parsedRoutes
WriteGroup ==
  /\ InGroup
  /\ routeIdx > Len(routes[groupIdx].routes)
  /\ schemaFiles' = [schemaFiles EXCEPT
                       ![currentGroup] = writeSchemaFile(@, parsedRoutes)]
  /\ parsedRoutes' = << >>
  /\ groupIdx' = groupIdx + 1
  /\ routeIdx' = 1
  /\ UNCHANGED <<configVars, flagVars, invoked, pc, allParsedRoutes, skipped, error, referenceFile,
                 runNo, atStart, methodVars, nameVars>>

\* the group loop is over
FinishParsing ==
  /\ pc = "parse"
  /\ groupIdx > Len(routes)
  /\ pc' = "formatClient"
  /\ UNCHANGED <<configVars, flagVars, invoked, groupIdx, routeIdx, parsedRoutes, allParsedRoutes,
                 skipped, error, fileVars, methodVars, nameVars>>

Ended == pc \in {"done", "failed", "exited"}

\* the command is started again on the same application and route table
Rerun ==
  /\ Ended
  /\ runNo = 1
  /\ runNo' = 2
  /\ atStart' = [schemaFiles |-> schemaFiles, referenceFile |-> referenceFile]
  /\ pc' = "start"
  /\ invoked' = << >>
  /\ routes' = << >>
  /\ groupIdx' = 1
  /\ routeIdx' = 1
  /\ parsedRoutes' = << >>
  /\ allParsedRoutes' = << >>
  /\ skipped' = << >>
  /\ error' = "none"
  /\ UNCHANGED <<groups, configResult, routeTable, flagVars, schemaFiles, referenceFile,
                 methodVars, nameVars>>

\* ------------------------------------------------------------------------
\* Loading the configuration: config/fines.ts calls defineConfig when the
\* application boots; the command runs only in a booted application
\* ------------------------------------------------------------------------
DefineConfig ==
  /\ pc = "boot"
  /\ configResult' = defineConfig(groups)
  /\ pc' = IF configResult'.kind = "returned" THEN "start" ELSE "failed"
  /\ UNCHANGED <<groups, routeTable, routes, flagVars, invoked, groupIdx, routeIdx, parsedRoutes,
                 allParsedRoutes, skipped, error, fileVars, methodVars, nameVars>>

\* group keys and prefix patterns a configuration file may declare
DeclaredKeys == {<<"a","p","i">>, <<"2">>, <<"1">>, <<"A","p","i">>}

DeclaredValues == {<<"/","a","p","i","/">>, <<"/","a","p","i","/","v","1","/">>, <<"/","a","/","/","b","/">>, <<"/","a","p","i">>}

\* object literals of at most MaxGroups properties, no key declared twice
Declarations ==
  {d \in SeqsUpTo(DeclaredKeys \X DeclaredValues, MaxGroups) :
     \A i, j \in 1..Len(d) : i # j => d[i][1] # d[j][1]}

ProbeRoutes == {
  [pattern |-> <<"/","a","p","i","/","v","1","/","u","s","e","r","s">>,
   methods |-> <<<<"G","E","T">>, <<"H","E","A","D">>>>,
   handler |-> [isFunction |-> FALSE, moduleNameOrPath |-> <<"#","c","o","n","t","r","o","l","l","e","r","s","/","u","s","e","r","s","_","c","o","n","t","r","o","l","l","e","r">>]],
  [pattern |-> <<"/","u","s","e","r","s">>,
   methods |-> <<<<"G","E","T">>, <<"H","E","A","D">>>>,
   handler |-> [isFunction |-> FALSE, moduleNameOrPath |-> <<"#","c","o","n","t","r","o","l","l","e","r","s","/","l","i","s","t","_","c","o","n","t","r","o","l","l","e","r">>]]
}

RunBoot == RunAt("boot")

InitConfig ==
  /\ groups \in Declarations
  /\ configResult = [kind |-> "pending"]
  /\ routeTable \in SeqsUpTo(ProbeRoutes, MaxRoutes)
  /\ routes = << >>
  /\ FlagsDefault
  /\ RunBoot
  /\ FilesIdle
  /\ MethodIdle
  /\ NameIdle

NextConfig ==
  \/ DefineConfig
  \/ PrepareDestination
  \/ GetRoutes

SpecConfig == InitConfig /\ [][NextConfig]_vars

\* ------------------------------------------------------------------------
\* #getMethod on its own
\* ------------------------------------------------------------------------
MethodNames == {<<"G","E","T">>, <<"H","E","A","D">>, <<"h","e","a","d">>, <<"H","e","a","d">>, <<"p","o","s","t">>, <<"P","O","S","T">>}

GetMethod ==
  /\ pc = "getMethod"
  /\ method' = getMethod(methods)
  /\ pc' = "done"
  /\ UNCHANGED <<configVars, flagVars, invoked, groupIdx, routeIdx, parsedRoutes, allParsedRoutes,
                 skipped, error, fileVars, methods, nameVars>>

InitMethod ==
  /\ ConfigIdle
  /\ FlagsDefault
  /\ RunAt("getMethod")
  /\ FilesIdle
  /\ methods \in SeqsUpTo(MethodNames, MaxMethods)
  /\ method = << >>
  /\ NameIdle

NextMethod == GetMethod

SpecMethod == InitMethod /\ [][NextMethod]_vars

\* ------------------------------------------------------------------------
\* The name derivation on its own (lines 422-442), for patterns and handler
\* files put together from pieces
\* ------------------------------------------------------------------------
PatternPieces == {<<"u","s","e","r","s">>, <<"l","i","s","t">>, <<":","i","d">>, <<"u","s","e","r","I","d">>, <<"U","s","e","r","s">>}

PatternSeparators == {"/", "-", "."}

HandlerFileWords == {<<<<"u","s","e","r","s">>>>, <<<<"l","i","s","t">>, <<"u","s","e","r","s">>>>, <<<<"s","h","o","w">>>>}

HandlerFileSuffixes == {ControllerSuffix, <<".","t","s">>}

\* the route pattern: '/' and the pieces, each two joined by the separator
patternOf(p) == <<"/">> \o join(p.pieces, <<p.sep>>)

\* the handler's source file, and its path relative to client/<group>
filePathOf(p) == AppRoot \o <<"/","a","p","p","/","c","o","n","t","r","o","l","l","e","r","s","/">> \o join(p.fileWords, <<"_">>) \o p.suffix

DeriveName ==
  /\ pc = "deriveName"
  /\ LET relativePath == getRelativePath(getClientPath(Internal), filePathOf(probe))
     IN IF constructorActionOk(relativePath)
        THEN /\ name' = deriveName(patternOf(probe), relativePath)
             /\ pc' = "done"
             /\ error' = error
        ELSE /\ name' = name
             /\ pc' = "failed"
             /\ error' = "file-name"
  /\ UNCHANGED <<configVars, flagVars, invoked, groupIdx, routeIdx, parsedRoutes, allParsedRoutes,
                 skipped, fileVars, methodVars, probe>>

InitName ==
  /\ ConfigIdle
  /\ FlagsDefault
  /\ RunAt("deriveName")
  /\ FilesIdle
  /\ MethodIdle
  /\ probe \in [pieces : SeqsUpTo(PatternPieces, MaxPieces),
                sep : PatternSeparators,
                fileWords : HandlerFileWords,
                suffix : HandlerFileSuffixes]
  /\ name = [key |-> << >>, type |-> << >>]

NextName == DeriveName

SpecName == InitName /\ [][NextName]_vars

Next ==
  \/ PrepareDestination
  \/ GetRoutes
  \/ \E step \in Steps : Command(step)
  \/ WriteReferenceFile
  \/ SkipRoute
  \/ ThrowError
  \/ SkipValidation
  \/ AddRoute
  \/ WriteGroup
  \/ FinishParsing
  \/ Rerun

Spec == Init /\ [][Next]_vars

\* ------------------------------------------------------------------------
\* The command under every combination of the three flags and of the exit
\* codes of the four subprocesses, on route tables of at most one route
\* ------------------------------------------------------------------------
ExitCodes == {0, 1}

InitTooling ==
  /\ groups \in RunConfigs
  /\ configResult = defineConfig(groups)
  /\ routeTable \in SeqsUpTo(RouteCatalog, 1)
  /\ routes = << >>
  /\ formatting \in BOOLEAN
  /\ typechecking \in BOOLEAN
  /\ linting \in BOOLEAN
  /\ exitCode \in [Steps -> ExitCodes]
  /\ RunAt("start")
  /\ \E old \in {NoFile, StaleFile} : schemaFiles = [g \in GroupNames |-> old]
  /\ referenceFile \in {NoReference, [exists |-> TRUE, text |-> "user"]}
  /\ runNo = 1
  /\ atStart = [schemaFiles |-> schemaFiles, referenceFile |-> referenceFile]
  /\ MethodIdle
  /\ NameIdle

SpecTooling == InitTooling /\ [][Next]_vars

\* ========================================================================
\* Properties
\* ========================================================================
Grouped == pc = "format" /\ configResult.kind = "returned"

\* the key of the first property, in the order the configuration file
\* declares them, whose prefix starts the pattern; 'internal' without one
RECURSIVE FirstDeclared(_, _)
FirstDeclared(declared, pattern) ==
  IF declared = << >> THEN Internal
  ELSE IF startsWith(pattern, declared[1][2]) THEN declared[1][1]
  ELSE FirstDeclared(Tail(declared), pattern)

\* C1: once the routes are grouped, every route sits in the group named by
\* the first configured prefix, in declaration order, that is a literal
\* prefix of its pattern, and in 'internal' when no prefix matches.
C1_GroupIsFirstDeclaredPrefix ==
  Grouped =>
    \A i \in 1..Len(routes) :
      \A j \in 1..Len(routes[i].routes) :
        routes[i].group = FirstDeclared(groups, routes[i].routes[j].pattern)

\* ------------------------------------------------------------------------
Unique(accepted) ==
  \A i, j \in 1..Len(accepted) :
    i # j => /\ accepted[i].name.key # accepted[j].name.key
             /\ accepted[i].controller.path # accepted[j].controller.path

\* the route being processed has the controller path, or the derived key,
\* of a route accepted earlier in the run
CollidesWithAccepted ==
  /\ ~currentRoute.handler.isFunction
  /\ \E i \in 1..Len(allParsedRoutes) :
       \/ allParsedRoutes[i].controller.path = currentRoute.handler.moduleNameOrPath
       \/ /\ Inspected[currentGroup, currentRoute].stage = "parsed"
          /\ allParsedRoutes[i].name.key =
               Inspected[currentGroup, currentRoute].draft.name.key

\* C2: the accepted routes never share a key or a controller path, and a
\* route that repeats the key or the controller path of an accepted route
\* ends the run with an error: it is neither accepted nor skipped.
C2_NoSharedKeyOrController ==
  /\ [](Unique(allParsedRoutes))
  /\ [][(AtRoute /\ CollidesWithAccepted) =>
          (/\ pc' = "failed"
           /\ error' # "none"
           /\ allParsedRoutes' = allParsedRoutes
           /\ skipped' = skipped)]_vars

\* C2 witness: a run ended by a collision with a route accepted before
C2_Witness ==
  /\ pc = "failed"
  /\ error \in {"controller-registered", "key-registered"}
  /\ Len(allParsedRoutes) >= 1

\* ------------------------------------------------------------------------
\* a group key of lowercase letters, digits and underscores
KeyWellFormed(key) ==
  /\ key # << >>
  /\ \A i \in 1..Len(key) : IsLowerChar(key[i]) \/ IsDigitChar(key[i]) \/ key[i] = "_"

SegmentWellFormed(seg) ==
  /\ seg # << >>
  /\ \A i \in 1..Len(seg) : IsLowerChar(seg[i]) \/ IsDigitChar(seg[i]) \/ seg[i] = "-"

\* a prefix pattern that starts and ends with '/' and is made of segments of
\* lowercase letters, digits and hyphens
PrefixWellFormed(value) ==
  LET parts == split(value, {"/"})
  IN /\ Len(parts) >= 3
     /\ parts[1] = << >>
     /\ parts[Len(parts)] = << >>
     /\ \A i \in 2..(Len(parts) - 1) : SegmentWellFormed(parts[i])

Offending(decl) == ~PrefixWellFormed(decl[2]) \/ ~KeyWellFormed(decl[1])

\* C3: defineConfig returns the configuration exactly when every key and
\* every prefix pattern is well formed, and otherwise throws an error that
\* names an offending key.
C3_ReturnsIffWellFormed ==
  configResult.kind # "pending" =>
    /\ configResult.kind = "returned" <=>
         \A i \in 1..Len(groups) : ~Offending(groups[i])
    /\ configResult.kind = "thrown" =>
         \E i \in 1..Len(groups) :
           Offending(groups[i]) /\ configResult.key = groups[i][1]

\* ------------------------------------------------------------------------
\* the class ts-morph finds for a module path
ClassOf(moduleNameOrPath) == SourceFiles[findSourceFile(SourceFiles, moduleNameOrPath)]

HasSource(moduleNameOrPath) == findSourceFile(SourceFiles, moduleNameOrPath) # 0

\* the handler does not meet the contract: no default export, not a class,
\* no `handle`, an `input` that is not an object, a `form` that is not boolean
FailsContract(sf) ==
  \/ ~sf.defaultExport
  \/ ~sf.isClass
  \/ ~sf.handle
  \/ sf.input \notin {"absent", "object"}
  \/ sf.form \notin {"absent", "boolean"}

HandlerFails(route) ==
  /\ ~route.handler.isFunction
  /\ HasSource(route.handler.moduleNameOrPath)
  /\ FailsContract(ClassOf(route.handler.moduleNameOrPath))

ReportedSkipped ==
  /\ Len(skipped') = Len(skipped) + 1
  /\ skipped'[Len(skipped')][1] = currentRoute.pattern
  /\ allParsedRoutes' = allParsedRoutes
  /\ parsedRoutes' = parsedRoutes
  /\ pc' = "parse"
  /\ error' = "none"
  /\ groupIdx' = groupIdx
  /\ routeIdx' = routeIdx + 1

\* C4 as stated: whenever the route being processed has a handler that fails
\* the contract, it is reported as skipped and the run goes on.
C4_FailingHandlerIsSkipped ==
  [][(AtRoute /\ HandlerFails(currentRoute)) => ReportedSkipped]_vars

\* the route gets as far as the Controller Validator: its file name and its
\* path segments are accepted and it collides with no accepted route
ReachesValidator ==
  /\ Inspected[currentGroup, currentRoute].stage = "parsed"
  /\ ~CollidesWithAccepted

EmittedRoutes(i) == schemaFiles[routes[i].group].routes

\* C4, amended: a route that reaches the Controller Validator with a handler
\* failing the contract is reported as skipped and the loop goes on to the
\* next route; no accepted route has a failing handler; and a run that gets
\* through the route loop has written every group's schema file, none of
\* them holding a route whose handler fails the contract.
C4_SkipIsLocal ==
  /\ [][(AtRoute /\ HandlerFails(currentRoute) /\ ReachesValidator) => ReportedSkipped]_vars
  /\ [](\A i \in 1..Len(allParsedRoutes) :
          ~FailsContract(ClassOf(allParsedRoutes[i].controller.path)))
  /\ [](pc \in {"formatClient", "done"} =>
          \A i \in 1..Len(routes) :
            /\ schemaFiles[routes[i].group].exists
            /\ \A k \in 1..Len(EmittedRoutes(i)) :
                 ~FailsContract(ClassOf(EmittedRoutes(i)[k].controller.path)))

\* C4 witness: a finished run whose first route was skipped for its missing
\* `handle`, with a later route accepted and every group written
C4_Witness ==
  /\ pc = "done"
  /\ Len(routeTable) >= 2
  /\ HandlerFails(routeTable[1])
  /\ skipped # << >>
  /\ skipped[1][2] = "no-handle"
  /\ Len(allParsedRoutes) >= 1
  /\ \A i \in 1..Len(routes) : schemaFiles[routes[i].group].exists

\* ------------------------------------------------------------------------
upperCased(s) == [i \in 1..Len(s) |-> toUpperChar(s[i])]

RECURSIVE LastNonHead(_)
LastNonHead(ms) ==
  IF ms = << >> THEN DefaultMethod
  ELSE IF upperCased(ms[Len(ms)]) # <<"H","E","A","D">> THEN upperCased(ms[Len(ms)])
  ELSE LastNonHead(SubSeq(ms, 1, Len(ms) - 1))

\* C5: #getMethod returns the last declared method that is not HEAD, in
\* upper case, and GET when there is none; [GET,HEAD] gives GET, [POST,HEAD]
\* gives POST, [GET,POST] gives POST.
C5_LastNonHeadWins ==
  pc = "done" =>
    /\ method = LastNonHead(methods)
    /\ (\A i \in 1..Len(methods) : upperCased(methods[i]) = <<"H","E","A","D">>) => method = <<"G","E","T">>
    /\ methods = <<<<"G","E","T">>, <<"H","E","A","D">>>> => method = <<"G","E","T">>
    /\ methods = <<<<"P","O","S","T">>, <<"H","E","A","D">>>> => method = <<"P","O","S","T">>
    /\ methods = <<<<"G","E","T">>, <<"P","O","S","T">>>> => method = <<"P","O","S","T">>

\* C5 witness: [GET, post, Head] resolved to POST
C5_Witness ==
  /\ pc = "done"
  /\ methods = <<<<"G","E","T">>, <<"p","o","s","t">>, <<"H","e","a","d">>>>
  /\ method = <<"P","O","S","T">>

\* ------------------------------------------------------------------------
\* `{{ name }}` with a name of letters
IsPlaceholder(seg) ==
  /\ Len(seg) >= 7
  /\ SubSeq(seg, 1, 3) = <<"{", "{", " ">>
  /\ SubSeq(seg, Len(seg) - 2, Len(seg)) = <<" ", "}", "}">>
  /\ \A i \in 4..(Len(seg) - 3) : IsLetter(seg[i])

TemplateSegments(path) == slice1(split(path, {"/"}))

\* C6: every segment of an accepted route's path template is a placeholder
\* `{{ name }}` or a literal of lowercase letters, digits and hyphens.
C6_TemplateSegmentsWellFormed ==
  \A i \in 1..Len(allParsedRoutes) :
    \A k \in 1..Len(TemplateSegments(allParsedRoutes[i].path)) :
      LET seg == TemplateSegments(allParsedRoutes[i].path)[k]
      IN IsPlaceholder(seg) \/ SegmentWellFormed(seg)

\* ------------------------------------------------------------------------
RECURSIVE EmittedUpTo(_)
EmittedUpTo(n) == IF n = 0 THEN << >> ELSE EmittedUpTo(n - 1) \o EmittedRoutes(n)

\* C7: when the second of two runs on the same application ends, the schema
\* files and the reference file are what the first run left; and at every
\* point of a run the schema files written so far hold, group after group,
\* exactly the routes accepted in this run.
C7_RegenerationIdempotent ==
  /\ (runNo = 2 /\ Ended) =>
       /\ schemaFiles = atStart.schemaFiles
       /\ referenceFile = atStart.referenceFile
  /\ routes # << >> =>
       /\ EmittedUpTo(groupIdx - 1) \o parsedRoutes = allParsedRoutes
       /\ \A i \in 1..(groupIdx - 1) : schemaFiles[routes[i].group].exists

\* C7 witness: a second run finished with two groups, both with routes
C7_Witness ==
  /\ runNo = 2
  /\ pc = "done"
  /\ Len(routes) = 2
  /\ \A i \in 1..Len(routes) : EmittedRoutes(i) # << >>

\* ------------------------------------------------------------------------
\* C8 as stated: a run that ends in a fatal error has written no group's
\* schema file.
C8_NoEmissionOnFatalError ==
  pc = "failed" => groupIdx = 1

\* C8, amended: a fatal error ends the run at once, nothing is written with
\* it or after it; the schema file of the group the error occurred in and of
\* every later group is as it was when the run started, while the files of
\* the groups completed before the error have been written.
C8_FatalErrorStopsEmission ==
  /\ [](pc = "failed" =>
          /\ error # "none"
          /\ \A i \in groupIdx..Len(routes) :
               schemaFiles[routes[i].group] = atStart.schemaFiles[routes[i].group]
          /\ \A i \in 1..(groupIdx - 1) : schemaFiles[routes[i].group].exists)
  /\ [][(AtRoute /\ error' # "none") =>
          (pc' = "failed" /\ schemaFiles' = schemaFiles /\ referenceFile' = referenceFile)]_vars
  /\ [][(pc = "failed" /\ runNo' = runNo) => UNCHANGED vars]_vars

\* C8 witness: an error in the second group, after the first group's file
\* was written and before the second's was
C8_Witness ==
  /\ pc = "failed"
  /\ runNo = 1
  /\ groupIdx = 2
  /\ schemaFiles[routes[1].group] # atStart.schemaFiles[routes[1].group]
  /\ schemaFiles[routes[2].group] = atStart.schemaFiles[routes[2].group]

\* ------------------------------------------------------------------------
\* the value of the literal the `form` member is initialised with; FALSE
\* without the member or without an initializer
DeclaredForm(sf) == sf.form = "boolean" /\ sf.initializer = <<"t","r","u","e">>

\* C9: the form flag of every accepted route is the boolean its controller
\* declares.
C9_FormIsDeclaredLiteral ==
  \A i \in 1..Len(allParsedRoutes) :
    allParsedRoutes[i].form = DeclaredForm(ClassOf(allParsedRoutes[i].controller.path))

\* ------------------------------------------------------------------------
\* the tokens of a name: the pieces of the pattern that are not parameters,
\* then the words of the handler file, each in snake case, first
\* occurrences only
RECURSIVE FirstOccurrences(_)
FirstOccurrences(ts) ==
  IF ts = << >> THEN << >>
  ELSE <<ts[1]>> \o FirstOccurrences(SelectSeq(Tail(ts), LAMBDA t : t # ts[1]))

NameTokens(p) ==
  LET raw == SelectSeq(p.pieces, LAMBDA piece : piece[1] # ":") \o p.fileWords
  IN FirstOccurrences([i \in 1..Len(raw) |-> snakeCase(raw[i])])

UpperSnake(ts) == join([i \in 1..Len(ts) |-> upperCased(ts[i])], <<"_">>)

Pascal(ts) == join([i \in 1..Len(ts) |-> pascalCase(ts[i])], << >>)

\* C10: for a handler file named <words>_controller.ts the derivation
\* succeeds, its key is the upper snake case of the token sequence and its
\* type the pascal case of that sequence followed by `Route`.
C10_NameFromTokens ==
  /\ (probe.suffix = ControllerSuffix) => pc # "failed"
  /\ pc = "done" =>
       /\ name.key = UpperSnake(NameTokens(probe))
       /\ name.type = Pascal(NameTokens(probe)) \o RouteSuffix

\* C10 witness: '/users<sep>:id' handled by list_users_controller.ts is
\* named USERS_LIST
C10_Witness ==
  /\ pc = "done"
  /\ probe.pieces = <<<<"u","s","e","r","s">>, <<":","i","d">>>>
  /\ probe.fileWords = <<<<"l","i","s","t">>, <<"u","s","e","r","s">>>>
  /\ name.key = <<"U","S","E","R","S","_","L","I","S","T">>

\* ------------------------------------------------------------------------
\* the subprocess calls of run(), in the order the code makes them
StepOrder == <<"format", "typecheck", "lint", "formatClient">>

\* the positions of run(), in the order it goes through them
PcOrder ==
  <<"start", "getRoutes", "format", "typecheck", "lint", "reference", "parse",
    "formatClient", "done">>

StepRank(step) == IndexIn(StepOrder, step)

\* the run went through the call of `step` and continued
Passed(step) ==
  CASE pc = "exited" -> StepRank(step) < StepRank(last(invoked))
    [] pc = "failed" -> step # "formatClient"
    [] OTHER -> IndexIn(PcOrder, pc) > IndexIn(PcOrder, step)

\* the subprocesses ran one at a time in the order of the code, none twice
InvokedInOrder ==
  \A i, j \in 1..Len(invoked) : i < j => StepRank(invoked[i]) < StepRank(invoked[j])

\* a subprocess was started only after every earlier one had exited with 0
EarlierExitedZero ==
  \A i \in 1..Len(invoked) : i < Len(invoked) => exitCode[invoked[i]] = 0

\* a non-zero exit ended the run at that step
NonZeroExitEndsRun ==
  /\ (invoked # << >> /\ exitCode[last(invoked)] # 0) => pc = "exited"
  /\ pc = "exited" => (invoked # << >> /\ exitCode[last(invoked)] # 0)

\* a step the run went past was invoked exactly when its flag is on
DisabledStepsNotInvoked ==
  \A step \in Steps :
    /\ step \in Range(invoked) => stepActive(step)
    /\ Passed(step) => (step \in Range(invoked) <=> stepActive(step))

\* the generated files are as they were when the command started
Untouched ==
  /\ schemaFiles = atStart.schemaFiles
  /\ referenceFile = atStart.referenceFile

\* the reference file and the schema file of every group have been written
AllWritten ==
  /\ referenceFile.exists
  /\ \A i \in 1..Len(routes) : schemaFiles[routes[i].group].exists

\* C11 as stated: the active tooling steps run one after another in the
\* order of the code, each only after the previous one exited with 0; a
\* non-zero exit of any active step ends the run at that step, without
\* retry, and no reference or schema file is written in that run; a step
\* whose flag is off is not invoked and does not block the run.
C11_FailedStepWritesNothing ==
  /\ InvokedInOrder
  /\ EarlierExitedZero
  /\ NonZeroExitEndsRun
  /\ DisabledStepsNotInvoked
  /\ pc = "exited" => Untouched

\* C11 amended: as above, except that no reference or schema file is
\* written when the failing step is one of the three that precede the
\* generation (formatter, type-checker, linter); the formatter is invoked
\* a second time on the client directory after the last group is written,
\* and when that call fails the files of the run are already written.
C11_ToolingSequentialAndFatal ==
  /\ InvokedInOrder
  /\ EarlierExitedZero
  /\ NonZeroExitEndsRun
  /\ DisabledStepsNotInvoked
  /\ (pc = "exited" /\ last(invoked) # "formatClient") => Untouched
  /\ (pc = "exited" /\ last(invoked) = "formatClient") => AllWritten

\* C11 witness: with --no-formatting and a formatter that would fail, the
\* type-checker passes, the linter exits with 1 and the run ends there
\* with no file written
C11_Witness ==
  /\ pc = "exited"
  /\ ~formatting
  /\ exitCode["format"] # 0
  /\ invoked = <<"typecheck", "lint">>
  /\ routeTable # << >>
  /\ ~referenceFile.exists
  /\ \A g \in GroupNames : ~schemaFiles[g].exists

====
